---- MODULE Spec2Model ----
(***************************************************************************)
(* A model of the measurement-algorithm framework of meas_algorithms:      *)
(*   - the PSF factory registry (PSF::registerMe, declare, lookup,         *)
(*     createPSF, PsfFactoryBase / PsfFactory) and the name -> tag         *)
(*     registries of the centroid and shape algorithm families;            *)
(*   - PSF::convolve;                                                      *)
(*   - the Shape value type and its covariance accessors;                  *)
(*   - NaiveMeasureCentroid::doApply.                                      *)
(* Each part has its own specification over the shared variables; the      *)
(* variables a specification does not use keep their initial value.        *)
(***************************************************************************)
EXTENDS Integers, Sequences, FiniteSets, TLC

VARIABLES
    psfRegistry,       \* PSF::_registry's map: name -> factory
    registered,        \* registerMe's static _registered, one per <PsfT, Sig>
    factoriesCreated,  \* number of `new PsfFactory<PsfT, Sig>` per <PsfT, Sig>
    declareCalls,      \* number of PSF::declare(name, factory) calls per name
    tagRegistry,       \* per capability family: name -> type tag
    lastOp,            \* the last registry operation and what it returned
    pc,                \* concurrent registerMe: each thread's position
    seen,              \* concurrent registerMe: the value read from _registered
    callInst,          \* concurrent registerMe: the <PsfT, Sig> all threads use
    callName,          \* concurrent registerMe: the name all threads pass
    psfKernel,         \* PSF::_kernel (possibly null)
    psfWidth,          \* PSF::_width
    psfHeight,         \* PSF::_height
    outImage,          \* the image PSF::convolve is asked to write
    psfOp,             \* the last PSF operation and what it did
    shape,             \* a Shape object's fields
    lastCovar,         \* the matrix last passed to Shape::setCovar, if any
    shapeOp,           \* the last Shape operation
    image,             \* the image handed to the centroid estimator
    background,        \* the background level handed to the centroid estimator
    centOp             \* the last doApply call and what it returned

regVars == <<psfRegistry, registered, factoriesCreated, declareCalls, tagRegistry, lastOp>>
concVars == <<pc, seen, callInst, callName>>
psfVars == <<psfKernel, psfWidth, psfHeight, outImage, psfOp>>
shapeVars == <<shape, lastCovar, shapeOp>>
centVars == <<image, background, centOp>>
vars == <<psfRegistry, registered, factoriesCreated, declareCalls, tagRegistry, lastOp,
          pc, seen, callInst, callName,
          psfKernel, psfWidth, psfHeight, outImage, psfOp,
          shape, lastCovar, shapeOp,
          image, background, centOp>>

(***************************************************************************)
(* Bounds of the model.                                                    *)
(***************************************************************************)
NumNames == 2
NumThreads == 2

Names == 1..NumNames
Threads == 1..NumThreads

\* The capability families that keep a name -> tag registry.
Capabilities == {"centroid", "shape"}

\* The two construction signatures PsfFactory is specialised for.
SigParams == "(int, int, double, double, double)"
SigKernel == "(lsst::afw::math::Kernel::Ptr)"
Sigs == {SigParams, SigKernel}

\* The instantiations <PsfT, PsfFactorySignatureT> of registerMe / PsfFactory.
Insts == {[psfT |-> "dgPsf", sig |-> SigParams], [psfT |-> "pcaPsf", sig |-> SigKernel]}

NoError == "none"
NotFoundException == "lsst::pex::exceptions::NotFoundException"
RuntimeErrorException == "lsst::pex::exceptions::RuntimeErrorException"

NoPSF == [psfT |-> "none", ctor |-> "none"]
NoFactory == [psfT |-> "none", sig |-> "none"]
EmptyMap == <<>>
\* An exception message is the sequence of its parts; no exception, no message.
NoMsg == <<>>

Count(map) == Cardinality(DOMAIN map)

(***************************************************************************)
(* PsfFactoryBase and the two PsfFactory specialisations.                  *)
(***************************************************************************)
\* PsfFactoryBase::create(int, int, double, double, double)
BaseCreateParams ==
    [err |-> NotFoundException,
     msg |-> <<"This PSF type doesn't have an ", SigParams, " constructor">>,
     psf |-> NoPSF]

\* PsfFactoryBase::create(Kernel::Ptr)
BaseCreateKernel ==
    [err |-> NotFoundException,
     msg |-> <<"This PSF type doesn't have a ", SigKernel, " constructor">>,
     psf |-> NoPSF]

\* new PsfT(...) through the constructor with signature sig
NewPsf(psfT, sig) == [psfT |-> psfT, ctor |-> sig]

\* PsfFactory<PsfT, Sig>::create(width, height, p0, p1, p2)
FactoryCreateParams(factory) ==
    IF factory.sig = SigParams
    THEN [err |-> NoError, msg |-> NoMsg, psf |-> NewPsf(factory.psfT, SigParams)]
    ELSE BaseCreateParams

\* PsfFactory<PsfT, Sig>::create(kernel)
FactoryCreateKernel(factory) ==
    IF factory.sig = SigKernel
    THEN [err |-> NoError, msg |-> NoMsg, psf |-> NewPsf(factory.psfT, SigKernel)]
    ELSE BaseCreateKernel

(***************************************************************************)
(* The registries.                                                         *)
(***************************************************************************)
\* new PsfFactory<PsfT, Sig>()
Factory(inst) == [psfT |-> inst.psfT, sig |-> inst.sig]

\* PSF::declare(name, factory): the first declaration of a name wins
Declare(reg, name, factory) ==
    IF name \in DOMAIN reg THEN reg ELSE reg @@ (name :> factory)

LookupAlwaysFinds(reg, name) ==
    IF name \in DOMAIN reg
    THEN [err |-> NoError, factory |-> reg[name]]
    ELSE [err |-> NoError, factory |-> Factory(CHOOSE i \in Insts : TRUE)]

\* PSF::lookup(name)
Lookup(reg, name) ==
    IF name \in DOMAIN reg
    THEN [err |-> NoError, factory |-> reg[name]]
    ELSE [err |-> NotFoundException, factory |-> NoFactory]

\* The tag a registry hands to a name it has not seen: tags are never reused
FreshTag(reg) == Count(reg) + 1

RegistryRegisterAlwaysFresh(reg, name) ==
    [n \in DOMAIN reg \cup {name} |-> IF n = name THEN FreshTag(reg) ELSE reg[n]]

\* register(capabilityRegistry, name): the mapping after the call
RegistryRegister(reg, name) ==
    IF name \in DOMAIN reg THEN reg ELSE reg @@ (name :> FreshTag(reg))

\* The fields of lastOp; every operation fills all of them.
OpRecord(op, cap, name, inst, existed, tag, ok, err, msg, psf, prevPsf, prevTags) ==
    [op |-> op, cap |-> cap, name |-> name, inst |-> inst, existed |-> existed,
     tag |-> tag, ok |-> ok, err |-> err, msg |-> msg, psf |-> psf,
     prevPsf |-> prevPsf, prevTags |-> prevTags]

NoInst == [psfT |-> "none", sig |-> "none"]

(***************************************************************************)
(* PSF: the kernel, the size of image realisations, and convolve.          *)
(***************************************************************************)
MaxKernelDim == 1
MaxDim == 1
MaxEdgeBit == 0

\* Kernel::getWidth() / getHeight() are ints; the code guards against <= 0.
KernelDims == -1..MaxKernelDim
NullKernel == [present |-> FALSE, width |-> 0, height |-> 0]
Kernels == {[present |-> TRUE, width |-> w, height |-> h] : w \in KernelDims, h \in KernelDims}
ImageDims == 0..MaxDim
EdgeBits == -1..MaxEdgeBit

\* An image nothing has been written to, and what lsst::afw::math::convolve
\* leaves in its output image: a function of exactly its arguments.
BlankImage == [written |-> FALSE, kernel |-> NullKernel, doNormalize |-> FALSE, edgeBit |-> -1]
AfwConvolve(kernel, doNormalize, edgeBit) ==
    [written |-> TRUE, kernel |-> kernel, doNormalize |-> doNormalize, edgeBit |-> edgeBit]

NoRealisationPositiveWidthOnly(kernel) ==
    ~kernel.present \/ kernel.width <= 0

\* !getKernel() || getKernel()->getWidth() <= 0 || getKernel()->getHeight() <= 0
NoRealisation(kernel) ==
    ~kernel.present \/ kernel.width <= 0 \/ kernel.height <= 0

PsfOpRecord(op, err, delegated, passed, doNormalize, edgeBit, prevOut, prevKernel, prevWidth, prevHeight) ==
    [op |-> op, err |-> err, delegated |-> delegated, passed |-> passed,
     doNormalize |-> doNormalize, edgeBit |-> edgeBit, prevOut |-> prevOut,
     prevKernel |-> prevKernel, prevWidth |-> prevWidth, prevHeight |-> prevHeight]

\* PSF::convolve(convolvedImage, inImage, doNormalize, edgeBit)
Convolve(doNormalize, edgeBit) ==
    /\ IF NoRealisation(psfKernel)
       THEN /\ outImage' = outImage
            /\ psfOp' = PsfOpRecord("convolve", RuntimeErrorException, 0, BlankImage,
                                    doNormalize, edgeBit, outImage, psfKernel, psfWidth, psfHeight)
       ELSE /\ outImage' = AfwConvolve(psfKernel, doNormalize, edgeBit)
            /\ psfOp' = PsfOpRecord("convolve", NoError, 1, outImage',
                                    doNormalize, edgeBit, outImage, psfKernel, psfWidth, psfHeight)
    /\ UNCHANGED <<psfKernel, psfWidth, psfHeight>>

\* PSF::setKernel(kernel)
SetKernel(kernel) ==
    /\ psfKernel' = kernel
    /\ psfOp' = PsfOpRecord("setKernel", NoError, 0, BlankImage, FALSE, -1,
                            outImage, psfKernel, psfWidth, psfHeight)
    /\ UNCHANGED <<psfWidth, psfHeight, outImage>>

\* PSF::setWidth(width)
SetWidth(width) ==
    /\ psfWidth' = width
    /\ psfOp' = PsfOpRecord("setWidth", NoError, 0, BlankImage, FALSE, -1,
                            outImage, psfKernel, psfWidth, psfHeight)
    /\ UNCHANGED <<psfKernel, psfHeight, outImage>>

\* PSF::setHeight(height)
SetHeight(height) ==
    /\ psfHeight' = height
    /\ psfOp' = PsfOpRecord("setHeight", NoError, 0, BlankImage, FALSE, -1,
                            outImage, psfKernel, psfWidth, psfHeight)
    /\ UNCHANGED <<psfKernel, psfWidth, outImage>>

IdlePSF ==
    /\ psfKernel = NullKernel
    /\ psfWidth = 0
    /\ psfHeight = 0
    /\ outImage = BlankImage
    /\ psfOp = PsfOpRecord("none", NoError, 0, BlankImage, FALSE, -1,
                           BlankImage, NullKernel, 0, 0)

\* A PSF built by PSF(width, height) has no kernel; one built by PSF(kernel) has.
InitPSFState ==
    /\ psfKernel \in Kernels \cup {NullKernel}
    /\ psfWidth \in ImageDims
    /\ psfHeight \in ImageDims
    /\ outImage = BlankImage
    /\ psfOp = PsfOpRecord("none", NoError, 0, BlankImage, FALSE, -1,
                           BlankImage, NullKernel, 0, 0)

(***************************************************************************)
(* Shape: moments, flags and the 4x4 covariance of (m0, mxx, mxy, myy).    *)
(***************************************************************************)
MaxVar == 1

\* A double: NaN, or a number.
NaN == [nan |-> TRUE, val |-> 0]
Num(v) == [nan |-> FALSE, val |-> v]
MomentValues == {Num(1)}
FlagValues == {0, 1}

Index4 == 0..3
\* The Matrix4 with diagonal (d0, d1, d2, d3) and c everywhere else.
Matrix(d0, d1, d2, d3, c) ==
    [i \in Index4, j \in Index4 |->
        IF i # j THEN c
        ELSE IF i = 0 THEN d0 ELSE IF i = 1 THEN d1 ELSE IF i = 2 THEN d2 ELSE d3]
Variances == 0..MaxVar
DiagonalMatrices ==
    {Matrix(d0, d1, d2, d3, 0) :
        d0 \in Variances, d1 \in Variances, d2 \in Variances, d3 \in Variances}
Matrices == DiagonalMatrices \cup {Matrix(d, d, d, d, 1) : d \in Variances}
IsDiagonal(m) == \A i \in Index4, j \in Index4 : i # j => m[i, j] = 0

\* Shape::getM0Err()
GetM0Err(s) == s.covar[0, 0]
\* Shape::getMxxErr()
GetMxxErr(s) == s.covar[1, 1]
\* Shape::getMxyErr()
GetMxyErr(s) == s.covar[2, 2]

GetMyyErrOffByOne(s) == s.covar[2, 2]

\* Shape::getMyyErr()
GetMyyErr(s) == s.covar[3, 3]

\* Shape::setM0(m0)
SetM0(m0) ==
    /\ shape' = [shape EXCEPT !.m0 = m0]
    /\ shapeOp' = "setM0"
    /\ UNCHANGED lastCovar
\* Shape::setMxx(mxx)
SetMxx(mxx) ==
    /\ shape' = [shape EXCEPT !.mxx = mxx]
    /\ shapeOp' = "setMxx"
    /\ UNCHANGED lastCovar
\* Shape::setMxy(mxy)
SetMxy(mxy) ==
    /\ shape' = [shape EXCEPT !.mxy = mxy]
    /\ shapeOp' = "setMxy"
    /\ UNCHANGED lastCovar
\* Shape::setMyy(myy)
SetMyy(myy) ==
    /\ shape' = [shape EXCEPT !.myy = myy]
    /\ shapeOp' = "setMyy"
    /\ UNCHANGED lastCovar
\* Shape::setMxy4(mxy4)
SetMxy4(mxy4) ==
    /\ shape' = [shape EXCEPT !.mxy4 = mxy4]
    /\ shapeOp' = "setMxy4"
    /\ UNCHANGED lastCovar
\* Shape::setFlags(flags)
SetFlags(flags) ==
    /\ shape' = [shape EXCEPT !.flags = flags]
    /\ shapeOp' = "setFlags"
    /\ UNCHANGED lastCovar
\* Shape::setCovar(covar)
SetCovar(covar) ==
    /\ shape' = [shape EXCEPT !.covar = covar]
    /\ shapeOp' = "setCovar"
    /\ lastCovar' = [set |-> TRUE, m |-> covar]

\* Shape(m0, mxx, mxy, myy, centroid): _mxy4 is NaN, _flags is 0, and _covar
\* is default-constructed, which leaves its entries indeterminate.
ShapeCtor(m0, mxx, mxy, myy, garbage) ==
    [m0 |-> m0, mxx |-> mxx, mxy |-> mxy, myy |-> myy, covar |-> garbage,
     mxy4 |-> NaN, flags |-> 0]

IdleShape ==
    /\ shape = ShapeCtor(NaN, NaN, NaN, NaN, Matrix(0, 0, 0, 0, 0))
    /\ lastCovar = [set |-> FALSE, m |-> Matrix(0, 0, 0, 0, 0)]
    /\ shapeOp = "none"

InitShapeState ==
    /\ \E garbage \in Matrices : shape = ShapeCtor(NaN, NaN, NaN, NaN, garbage)
    /\ lastCovar = [set |-> FALSE, m |-> Matrix(0, 0, 0, 0, 0)]
    /\ shapeOp = "none"

(***************************************************************************)
(* NaiveMeasureCentroid::doApply on an image with origin (x0, y0).         *)
(* Pixel values and the background are integers, so every sum is exact and *)
(* a quotient is kept as a fraction [num, den].                            *)
(***************************************************************************)
MaxPixel == 1
MaxOrigin == 1
MaxBackground == 1
PatchSize == 3

PixelValues == 0..MaxPixel
Origins == 0..MaxOrigin
Backgrounds == 0..MaxBackground
\* The image is one 3x3 patch: image-local pixel indices 0 .. 2 on both axes.
LocalIndex == 0..(PatchSize - 1)
Images ==
    {[x0 |-> ox, y0 |-> oy, pix |-> p] :
        ox \in Origins, oy \in Origins, p \in [LocalIndex \X LocalIndex -> PixelValues]}

\* The 3x3 neighbourhood of local pixel (lx, ly) lies inside the image.
InBounds(lx, ly) ==
    /\ lx - 1 \in LocalIndex /\ lx + 1 \in LocalIndex
    /\ ly - 1 \in LocalIndex /\ ly + 1 \in LocalIndex

\* lsst::afw::image::indexToPosition: the position of the centre of pixel ind
indexToPosition(ind) == [num |-> ind, den |-> 1]

\* a + n/d for a fraction a
AddQuotient(a, n, d) == [num |-> a.num * d + n * a.den, den |-> a.den * d]
RatEq(a, b) == a.num * b.den = b.num * a.den

NoCentroid == [x |-> [num |-> 0, den |-> 0], y |-> [num |-> 0, den |-> 0]]

\* im(dx, dy) of the xy_locator at local pixel (lx, ly)
Im(img, lx, ly, dx, dy) == img.pix[<<lx + dx, ly + dy>>]

SumWithoutBackground(img, lx, ly, bg) ==
    Im(img, lx, ly, -1, 1) + Im(img, lx, ly, 0, 1) + Im(img, lx, ly, 1, 1) +
    Im(img, lx, ly, -1, 0) + Im(img, lx, ly, 0, 0) + Im(img, lx, ly, 1, 0) +
    Im(img, lx, ly, -1, -1) + Im(img, lx, ly, 0, -1) + Im(img, lx, ly, 1, -1)

\* sum
Sum(img, lx, ly, bg) ==
    (Im(img, lx, ly, -1, 1) + Im(img, lx, ly, 0, 1) + Im(img, lx, ly, 1, 1) +
     Im(img, lx, ly, -1, 0) + Im(img, lx, ly, 0, 0) + Im(img, lx, ly, 1, 0) +
     Im(img, lx, ly, -1, -1) + Im(img, lx, ly, 0, -1) + Im(img, lx, ly, 1, -1)) - 9 * bg

SumXWithCentreColumn(img, lx, ly) ==
    (0 - Im(img, lx, ly, -1, 1)) + Im(img, lx, ly, 0, 1) + Im(img, lx, ly, 1, 1) +
    (0 - Im(img, lx, ly, -1, 0)) + Im(img, lx, ly, 1, 0) +
    (0 - Im(img, lx, ly, -1, -1)) + Im(img, lx, ly, 1, -1)

\* sum_x
SumX(img, lx, ly) ==
    (0 - Im(img, lx, ly, -1, 1)) + Im(img, lx, ly, 1, 1) +
    (0 - Im(img, lx, ly, -1, 0)) + Im(img, lx, ly, 1, 0) +
    (0 - Im(img, lx, ly, -1, -1)) + Im(img, lx, ly, 1, -1)

\* sum_y
SumY(img, lx, ly) ==
    (Im(img, lx, ly, -1, 1) + Im(img, lx, ly, 0, 1) + Im(img, lx, ly, 1, 1)) -
    (Im(img, lx, ly, -1, -1) + Im(img, lx, ly, 0, -1) + Im(img, lx, ly, 1, -1))

ResultIndexLocalFrame(l, origin) == l

\* x + image.getX0(), y + image.getY0(): the index handed to indexToPosition
ResultIndex(l, origin) == l + origin

\* NaiveMeasureCentroid::doApply(image, x, y, psf, background)
NaiveDoApply(img, x, y, bg) ==
    LET lx == x - img.x0
        ly == y - img.y0
        sum == Sum(img, lx, ly, bg)
    IN IF sum = 0
       THEN [err |-> RuntimeErrorException, divisions |-> 0, centroid |-> NoCentroid]
       ELSE [err |-> NoError, divisions |-> 2,
             centroid |->
                 [x |-> AddQuotient(indexToPosition(ResultIndex(lx, img.x0)),
                                    SumX(img, lx, ly), sum),
                  y |-> AddQuotient(indexToPosition(ResultIndex(ly, img.y0)),
                                    SumY(img, lx, ly), sum)]]

\* A call of doApply at (x, y); reading outside the image is the caller's error.
DoApply(x, y) ==
    /\ InBounds(x - image.x0, y - image.y0)
    /\ centOp' = [op |-> "doApply", x |-> x, y |-> y,
                  result |-> NaiveDoApply(image, x, y, background)]
    /\ UNCHANGED <<image, background>>

NoCentOp == [op |-> "none", x |-> 0, y |-> 0,
             result |-> [err |-> NoError, divisions |-> 0, centroid |-> NoCentroid]]

IdleCentroid ==
    /\ image = [x0 |-> 0, y0 |-> 0, pix |-> [p \in LocalIndex \X LocalIndex |-> 0]]
    /\ background = 0
    /\ centOp = NoCentOp

InitCentroidState ==
    /\ image \in Images
    /\ background \in Backgrounds
    /\ centOp = NoCentOp

(***************************************************************************)
(* Sequential registry operations.                                         *)
(***************************************************************************)
\* register(capabilityRegistry, name) -> tag
Register(cap, name) ==
    /\ tagRegistry' = [tagRegistry EXCEPT ![cap] = RegistryRegister(@, name)]
    /\ lastOp' = OpRecord("register", cap, name, NoInst, name \in DOMAIN tagRegistry[cap],
                          tagRegistry'[cap][name], TRUE, NoError, NoMsg, NoPSF,
                          psfRegistry, tagRegistry[cap])
    /\ UNCHANGED <<psfRegistry, registered, factoriesCreated, declareCalls>>

\* PSF::registerMe<PsfT, PsfFactorySignatureT>(name), called from one thread
RegisterMe(inst, name) ==
    /\ IF ~registered[inst]
       THEN /\ factoriesCreated' = [factoriesCreated EXCEPT ![inst] = @ + 1]
            /\ declareCalls' = [declareCalls EXCEPT ![name] = @ + 1]
            /\ psfRegistry' = Declare(psfRegistry, name, Factory(inst))
            /\ registered' = [registered EXCEPT ![inst] = TRUE]
       ELSE UNCHANGED <<factoriesCreated, declareCalls, psfRegistry, registered>>
    /\ lastOp' = OpRecord("registerMe", "PSF", name, inst, name \in DOMAIN psfRegistry,
                          0, TRUE, NoError, NoMsg, NoPSF, psfRegistry, EmptyMap)
    /\ UNCHANGED tagRegistry

\* PSF::lookup(name)
LookupOp(name) ==
    /\ lastOp' = OpRecord("lookup", "PSF", name, NoInst, name \in DOMAIN psfRegistry,
                          0, TRUE, Lookup(psfRegistry, name).err, NoMsg, NoPSF,
                          psfRegistry, EmptyMap)
    /\ UNCHANGED <<psfRegistry, registered, factoriesCreated, declareCalls, tagRegistry>>

\* createPSF(name, width, height, p0, p1, p2)
CreatePSFParams(name) ==
    /\ LET found == Lookup(psfRegistry, name)
           made == IF found.err # NoError
                   THEN [err |-> found.err, msg |-> NoMsg, psf |-> NoPSF]
                   ELSE FactoryCreateParams(found.factory)
       IN lastOp' = OpRecord("createPSF", SigParams, name, NoInst,
                             name \in DOMAIN psfRegistry, 0, TRUE,
                             made.err, made.msg, made.psf, psfRegistry, EmptyMap)
    /\ UNCHANGED <<psfRegistry, registered, factoriesCreated, declareCalls, tagRegistry>>

\* createPSF(name, kernel)
CreatePSFKernel(name) ==
    /\ LET found == Lookup(psfRegistry, name)
           made == IF found.err # NoError
                   THEN [err |-> found.err, msg |-> NoMsg, psf |-> NoPSF]
                   ELSE FactoryCreateKernel(found.factory)
       IN lastOp' = OpRecord("createPSF", SigKernel, name, NoInst,
                             name \in DOMAIN psfRegistry, 0, TRUE,
                             made.err, made.msg, made.psf, psfRegistry, EmptyMap)
    /\ UNCHANGED <<psfRegistry, registered, factoriesCreated, declareCalls, tagRegistry>>

InitRegistry ==
    /\ psfRegistry = EmptyMap
    /\ registered = [i \in Insts |-> FALSE]
    /\ factoriesCreated = [i \in Insts |-> 0]
    /\ declareCalls = [n \in Names |-> 0]
    /\ tagRegistry = [c \in Capabilities |-> EmptyMap]
    /\ lastOp = OpRecord("none", "none", 1, NoInst, FALSE, 0, TRUE, NoError, NoMsg, NoPSF,
                         EmptyMap, EmptyMap)

IdleConc ==
    /\ pc = [t \in Threads |-> "idle"]
    /\ seen = [t \in Threads |-> FALSE]
    /\ callInst = NoInst
    /\ callName = 1

Init == InitRegistry /\ IdleConc /\ IdlePSF /\ IdleShape /\ IdleCentroid

Next ==
    \/ \E c \in Capabilities, n \in Names : Register(c, n) /\ UNCHANGED <<concVars, psfVars, shapeVars, centVars>>
    \/ \E i \in Insts, n \in Names : RegisterMe(i, n) /\ UNCHANGED <<concVars, psfVars, shapeVars, centVars>>
    \/ \E n \in Names : LookupOp(n) /\ UNCHANGED <<concVars, psfVars, shapeVars, centVars>>
    \/ \E n \in Names : CreatePSFParams(n) /\ UNCHANGED <<concVars, psfVars, shapeVars, centVars>>
    \/ \E n \in Names : CreatePSFKernel(n) /\ UNCHANGED <<concVars, psfVars, shapeVars, centVars>>

Spec == Init /\ [][Next]_vars

(***************************************************************************)
(* PSF::registerMe<PsfT, Sig>(name) called by several threads at once.     *)
(* The function takes no lock: each thread reads the static flag, creates  *)
(* and declares a factory if it read false, then sets the flag.  The flag  *)
(* is a plain bool, so a read that follows another thread's write is a     *)
(* data race and may return either value.                                  *)
(***************************************************************************)
\* if (!_registered)
T_Read(t) ==
    /\ pc[t] = "start"
    /\ \E v \in (IF registered[callInst] THEN BOOLEAN ELSE {FALSE}) :
            seen' = [seen EXCEPT ![t] = v]
    /\ pc' = [pc EXCEPT ![t] = "read"]
    /\ UNCHANGED <<regVars, callInst, callName>>

\* new PsfFactory<PsfT, Sig>(); factory->markPersistent()
T_New(t) ==
    /\ pc[t] = "read" /\ ~seen[t]
    /\ factoriesCreated' = [factoriesCreated EXCEPT ![callInst] = @ + 1]
    /\ pc' = [pc EXCEPT ![t] = "new"]
    /\ UNCHANGED <<psfRegistry, registered, declareCalls, tagRegistry, lastOp,
                   seen, callInst, callName>>

\* PSF::declare(name, factory)
T_Declare(t) ==
    /\ pc[t] = "new"
    /\ declareCalls' = [declareCalls EXCEPT ![callName] = @ + 1]
    /\ psfRegistry' = Declare(psfRegistry, callName, Factory(callInst))
    /\ pc' = [pc EXCEPT ![t] = "declared"]
    /\ UNCHANGED <<registered, factoriesCreated, tagRegistry, lastOp,
                   seen, callInst, callName>>

\* _registered = true
T_Set(t) ==
    /\ pc[t] = "declared"
    /\ registered' = [registered EXCEPT ![callInst] = TRUE]
    /\ pc' = [pc EXCEPT ![t] = "return"]
    /\ UNCHANGED <<psfRegistry, factoriesCreated, declareCalls, tagRegistry, lastOp,
                   seen, callInst, callName>>

\* the flag was read as true: the body of the if is skipped
T_Skip(t) ==
    /\ pc[t] = "read" /\ seen[t]
    /\ pc' = [pc EXCEPT ![t] = "return"]
    /\ UNCHANGED <<regVars, seen, callInst, callName>>

\* return true
T_Return(t) ==
    /\ pc[t] = "return"
    /\ pc' = [pc EXCEPT ![t] = "done"]
    /\ UNCHANGED <<regVars, seen, callInst, callName>>

InitConc ==
    /\ InitRegistry
    /\ pc = [t \in Threads |-> "start"]
    /\ seen = [t \in Threads |-> FALSE]
    /\ callInst \in Insts
    /\ callName \in Names
    /\ IdlePSF /\ IdleShape /\ IdleCentroid

NextConc ==
    \/ \E t \in Threads : T_Read(t) /\ UNCHANGED <<psfVars, shapeVars, centVars>>
    \/ \E t \in Threads : T_New(t) /\ UNCHANGED <<psfVars, shapeVars, centVars>>
    \/ \E t \in Threads : T_Declare(t) /\ UNCHANGED <<psfVars, shapeVars, centVars>>
    \/ \E t \in Threads : T_Set(t) /\ UNCHANGED <<psfVars, shapeVars, centVars>>
    \/ \E t \in Threads : T_Skip(t) /\ UNCHANGED <<psfVars, shapeVars, centVars>>
    \/ \E t \in Threads : T_Return(t) /\ UNCHANGED <<psfVars, shapeVars, centVars>>

SpecConc == InitConc /\ [][NextConc]_vars

AllDone == \A t \in Threads : pc[t] = "done"

(***************************************************************************)
(* The specifications of the PSF, Shape and centroid parts.                *)
(***************************************************************************)
InitPSF == InitRegistry /\ IdleConc /\ InitPSFState /\ IdleShape /\ IdleCentroid

NextPSF ==
    \/ \E n \in BOOLEAN, e \in EdgeBits :
            Convolve(n, e) /\ UNCHANGED <<regVars, concVars, shapeVars, centVars>>
    \/ \E k \in Kernels \cup {NullKernel} :
            SetKernel(k) /\ UNCHANGED <<regVars, concVars, shapeVars, centVars>>
    \/ \E w \in ImageDims :
            SetWidth(w) /\ UNCHANGED <<regVars, concVars, shapeVars, centVars>>
    \/ \E h \in ImageDims :
            SetHeight(h) /\ UNCHANGED <<regVars, concVars, shapeVars, centVars>>

SpecPSF == InitPSF /\ [][NextPSF]_vars

InitShape == InitRegistry /\ IdleConc /\ IdlePSF /\ InitShapeState /\ IdleCentroid

NextShape ==
    \/ \E v \in MomentValues : SetM0(v) /\ UNCHANGED <<regVars, concVars, psfVars, centVars>>
    \/ \E v \in MomentValues : SetMxx(v) /\ UNCHANGED <<regVars, concVars, psfVars, centVars>>
    \/ \E v \in MomentValues : SetMxy(v) /\ UNCHANGED <<regVars, concVars, psfVars, centVars>>
    \/ \E v \in MomentValues : SetMyy(v) /\ UNCHANGED <<regVars, concVars, psfVars, centVars>>
    \/ \E v \in MomentValues : SetMxy4(v) /\ UNCHANGED <<regVars, concVars, psfVars, centVars>>
    \/ \E f \in FlagValues : SetFlags(f) /\ UNCHANGED <<regVars, concVars, psfVars, centVars>>
    \/ \E m \in Matrices : SetCovar(m) /\ UNCHANGED <<regVars, concVars, psfVars, centVars>>

SpecShape == InitShape /\ [][NextShape]_vars

InitCentroid == InitRegistry /\ IdleConc /\ IdlePSF /\ IdleShape /\ InitCentroidState

NextCentroid ==
    \E x \in 0..(MaxOrigin + PatchSize), y \in 0..(MaxOrigin + PatchSize) :
        DoApply(x, y) /\ UNCHANGED <<regVars, concVars, psfVars, shapeVars>>

SpecCentroid == InitCentroid /\ [][NextCentroid]_vars


(***************************************************************************)
(* Claims about the registries.                                            *)
(***************************************************************************)
\* C1: in every registry (the centroid and shape tag registries, the PSF
\* factory registry), registering a name that is already registered returns
\* the tag the name already had, allocates no fresh tag, and leaves the
\* number of entries (and the entry of the name) unchanged.
C1_DuplicateRegistrationIsIdempotent ==
    /\ (lastOp.op = "register" /\ lastOp.existed) =>
            /\ lastOp.tag = lastOp.prevTags[lastOp.name]
            /\ Count(tagRegistry[lastOp.cap]) = Count(lastOp.prevTags)
            /\ {tagRegistry[lastOp.cap][n] : n \in DOMAIN tagRegistry[lastOp.cap]}
                   = {lastOp.prevTags[n] : n \in DOMAIN lastOp.prevTags}
    /\ (lastOp.op = "registerMe" /\ lastOp.existed) =>
            /\ Count(psfRegistry) = Count(lastOp.prevPsf)
            /\ psfRegistry[lastOp.name] = lastOp.prevPsf[lastOp.name]

\* C1 witness: a name of a two-entry tag registry was just registered again,
\* and some PSF name has been declared twice (by two factory types).
C1_Witness ==
    /\ lastOp.op = "register" /\ lastOp.existed
    /\ Count(tagRegistry[lastOp.cap]) = NumNames
    /\ \E n \in Names : declareCalls[n] = 2 /\ n \in DOMAIN psfRegistry

\* C3: for a name that was never registered, lookup and both forms of
\* createPSF fail with the not-found error, construct no PSF and leave the
\* registry unchanged; lookup of a registered name succeeds.
C3_UnregisteredNameFails ==
    /\ (lastOp.op \in {"lookup", "createPSF"} /\ ~lastOp.existed) =>
            /\ lastOp.err = NotFoundException
            /\ lastOp.psf = NoPSF
            /\ psfRegistry = lastOp.prevPsf
            /\ lastOp.name \notin DOMAIN psfRegistry
    /\ (lastOp.op = "lookup" /\ lastOp.existed) => lastOp.err = NoError

\* C3 witness: createPSF was just called with an unregistered name while
\* another name is registered.
C3_Witness ==
    /\ lastOp.op = "createPSF" /\ ~lastOp.existed
    /\ Count(psfRegistry) >= 1
    /\ lastOp.err = NotFoundException

\* The error lookup raises for a name that is not registered.
UnregisteredNameError == Lookup(EmptyMap, 1).err

\* C4: a factory implements exactly one construction protocol; createPSF
\* with the signature the registered factory does not implement fails,
\* building no PSF, with an error that names the missing signature and whose
\* kind differs from the error raised for an unregistered name; with the
\* matching signature it returns a new PSF.
C4_UnsupportedSignatureIsDistinctError ==
    /\ \A i \in Insts :
            (FactoryCreateParams(Factory(i)).err = NoError)
                # (FactoryCreateKernel(Factory(i)).err = NoError)
    /\ (lastOp.op = "createPSF" /\ lastOp.existed) =>
            IF psfRegistry[lastOp.name].sig = lastOp.cap
            THEN /\ lastOp.err = NoError
                 /\ lastOp.psf = NewPsf(psfRegistry[lastOp.name].psfT, lastOp.cap)
            ELSE /\ lastOp.err # NoError
                 /\ lastOp.psf = NoPSF
                 /\ \E k \in DOMAIN lastOp.msg : lastOp.msg[k] = lastOp.cap
                 /\ lastOp.err # UnregisteredNameError

\* C4 without the distinctness of the two error kinds: what the factories do.
C4_SingleProtocolFactories ==
    /\ \A i \in Insts :
            (FactoryCreateParams(Factory(i)).err = NoError)
                # (FactoryCreateKernel(Factory(i)).err = NoError)
    /\ (lastOp.op = "createPSF" /\ lastOp.existed) =>
            IF psfRegistry[lastOp.name].sig = lastOp.cap
            THEN /\ lastOp.err = NoError
                 /\ lastOp.psf = NewPsf(psfRegistry[lastOp.name].psfT, lastOp.cap)
            ELSE /\ lastOp.err = NotFoundException
                 /\ lastOp.psf = NoPSF
                 /\ \E k \in DOMAIN lastOp.msg : lastOp.msg[k] = lastOp.cap

\* C10: a registerMe<PsfT, Sig>(name) call that returned true has left a
\* factory declared under that name, so lookup(name) succeeds afterwards.
C10_RegisterMeTrueImpliesDeclared ==
    (lastOp.op = "registerMe" /\ lastOp.ok) =>
        Lookup(psfRegistry, lastOp.name).err = NoError

\* C2: when all concurrent registerMe calls for one <PsfT, Sig> and name have
\* returned, exactly one factory was created and declared for the name and
\* the registry holds a single entry for it.
C2_ConcurrentFirstUseCreatesOneFactory ==
    AllDone =>
        /\ factoriesCreated[callInst] = 1
        /\ declareCalls[callName] = 1
        /\ DOMAIN psfRegistry = {callName}

(***************************************************************************)
(* Claims about PSF::convolve.                                             *)
(***************************************************************************)
\* A kernel convolve can use: present, with positive width and height.
KernelUsable(k) == k.present /\ k.width >= 1 /\ k.height >= 1

\* C5: convolve fails with the runtime (precondition) error, without calling
\* the convolution routine and without modifying the output image, exactly
\* when the PSF has no kernel or the kernel's width or height is <= 0;
\* otherwise it delegates once with the same kernel, doNormalize and edgeBit;
\* the PSF's kernel, width and height are unchanged by the call.
C5_ConvolvePrecondition ==
    psfOp.op = "convolve" =>
        /\ psfOp.err \in {NoError, RuntimeErrorException}
        /\ (psfOp.err = RuntimeErrorException) <=> ~KernelUsable(psfOp.prevKernel)
        /\ psfOp.err # NoError => (psfOp.delegated = 0 /\ outImage = psfOp.prevOut)
        /\ psfOp.err = NoError =>
                /\ psfOp.delegated = 1
                /\ psfOp.passed.kernel = psfOp.prevKernel
                /\ psfOp.passed.doNormalize = psfOp.doNormalize
                /\ psfOp.passed.edgeBit = psfOp.edgeBit
                /\ outImage = psfOp.passed
        /\ psfKernel = psfOp.prevKernel
        /\ psfWidth = psfOp.prevWidth
        /\ psfHeight = psfOp.prevHeight

\* C5 witness: convolve just failed on a kernel of positive width and height
\* 0, and the output image still holds an earlier, successful convolution.
C5_Witness ==
    /\ psfOp.op = "convolve" /\ psfOp.err = RuntimeErrorException
    /\ psfOp.prevKernel.present
    /\ psfOp.prevKernel.width > 0 /\ psfOp.prevKernel.height = 0
    /\ outImage.written

(***************************************************************************)
(* Claims about Shape.                                                     *)
(***************************************************************************)
\* C8: once setCovar was given a diagonal matrix diag(d0, d1, d2, d3),
\* getM0Err, getMxxErr and getMyyErr return d0, d1 and d3, also after any
\* later call of setM0, setMxx, setMxy, setMyy, setMxy4 or setFlags.
C8_CovarianceDiagonalReadBack ==
    (lastCovar.set /\ IsDiagonal(lastCovar.m)) =>
        /\ GetM0Err(shape) = lastCovar.m[0, 0]
        /\ GetMxxErr(shape) = lastCovar.m[1, 1]
        /\ GetMyyErr(shape) = lastCovar.m[3, 3]

\* C8 witness: a diagonal covariance whose mxy and myy entries differ was
\* set, and a moment setter was called after it.
C8_Witness ==
    /\ lastCovar.set /\ IsDiagonal(lastCovar.m)
    /\ lastCovar.m[2, 2] # lastCovar.m[3, 3]
    /\ lastCovar.m[0, 0] # lastCovar.m[1, 1]
    /\ shapeOp = "setMxx"
    /\ shape.myy = Num(1) /\ shape.flags = 1

(***************************************************************************)
(* Claims about the naive centroid estimator.                              *)
(***************************************************************************)
RECURSIVE SumOver(_, _)
\* The sum of the pixels of pix at the coordinates in S.
SumOver(pix, S) ==
    IF S = {} THEN 0
    ELSE LET c == CHOOSE c \in S : TRUE IN pix[c] + SumOver(pix, S \ {c})

\* The input pixel of the last call in image-local coordinates, and the
\* cells of its 3x3 patch.
CallLx == centOp.x - image.x0
CallLy == centOp.y - image.y0
Patch == {<<CallLx + dx, CallLy + dy>> : dx \in -1..1, dy \in -1..1}
Column(dx) == {<<CallLx + dx, CallLy + dy>> : dy \in -1..1}
Row(dy) == {<<CallLx + dx, CallLy + dy>> : dx \in -1..1}
NetFlux == SumOver(image.pix, Patch) - 9 * background
AllEqual == \A c \in Patch, d \in Patch : image.pix[c] = image.pix[d]

\* C6: doApply fails with the runtime (computation) error, returning no
\* Centroid and dividing nothing, whenever the net flux of the patch (its
\* nine pixels minus 9 times the background) is 0; for a nonzero net flux
\* it returns a Centroid and raises no error.
C6_ZeroFluxFails ==
    centOp.op = "doApply" =>
        /\ NetFlux = 0 =>
                /\ centOp.result.err = RuntimeErrorException
                /\ centOp.result.centroid = NoCentroid
                /\ centOp.result.divisions = 0
        /\ NetFlux # 0 =>
                /\ centOp.result.err = NoError
                /\ centOp.result.centroid.x.den # 0
                /\ centOp.result.centroid.y.den # 0

\* C6 witness: doApply just failed on a patch of nonzero pixels whose sum
\* equals 9 times a nonzero background.
C6_Witness ==
    /\ centOp.op = "doApply" /\ centOp.result.err = RuntimeErrorException
    /\ background > 0
    /\ SumOver(image.pix, Patch) > 0

\* C7 as stated: for a patch of nine equal pixel values and background 0,
\* doApply returns exactly the nominal pixel centre.
C7_UniformPatchReturnsCentre ==
    (centOp.op = "doApply" /\ AllEqual /\ background = 0) =>
        /\ centOp.result.err = NoError
        /\ RatEq(centOp.result.centroid.x, indexToPosition(centOp.x))
        /\ RatEq(centOp.result.centroid.y, indexToPosition(centOp.y))

\* C7 amended: for a patch of nine equal NONZERO pixel values and background
\* 0, doApply returns exactly the nominal pixel centre (an all-zero patch has
\* no counts and fails instead).
C7_UniformNonzeroPatchReturnsCentre ==
    (centOp.op = "doApply" /\ AllEqual /\ background = 0
        /\ image.pix[<<CallLx, CallLy>>] # 0) =>
        /\ centOp.result.err = NoError
        /\ centOp.result.centroid.x.den # 0
        /\ centOp.result.centroid.y.den # 0
        /\ RatEq(centOp.result.centroid.x, indexToPosition(centOp.x))
        /\ RatEq(centOp.result.centroid.y, indexToPosition(centOp.y))

\* C7 witness: doApply was just applied to a uniform nonzero patch with
\* background 0 in an image whose origin is not (0, 0).
C7_Witness ==
    /\ centOp.op = "doApply" /\ AllEqual /\ background = 0
    /\ image.pix[<<CallLx, CallLy>>] # 0
    /\ image.x0 > 0 /\ image.y0 = 0

\* The image moved by d on both axes.
Translate(img, d) == [img EXCEPT !.x0 = @ + d, !.y0 = @ + d]

\* C9: for a patch of nonzero net flux doApply returns
\* (pixelCenter(x) + sum_x/sum, pixelCenter(y) + sum_y/sum) in the frame of
\* its input, with sum_x = right column - left column, sum_y = top row -
\* bottom row and only sum reduced by 9 times the background; moving the
\* image origin and the input position by the same amount moves the result
\* by exactly that amount.
C9_CentroidFormulaAndTranslation ==
    (centOp.op = "doApply" /\ NetFlux # 0) =>
        /\ centOp.result.err = NoError
        /\ centOp.result.centroid.x.den # 0
        /\ centOp.result.centroid.y.den # 0
        /\ RatEq(centOp.result.centroid.x,
                 AddQuotient(indexToPosition(centOp.x),
                             SumOver(image.pix, Column(1)) - SumOver(image.pix, Column(-1)),
                             NetFlux))
        /\ RatEq(centOp.result.centroid.y,
                 AddQuotient(indexToPosition(centOp.y),
                             SumOver(image.pix, Row(1)) - SumOver(image.pix, Row(-1)),
                             NetFlux))
        /\ \A d \in 1..(MaxOrigin + 1) :
               LET moved == NaiveDoApply(Translate(image, d), centOp.x + d, centOp.y + d,
                                         background)
               IN /\ moved.err = NoError
                  /\ moved.centroid.x.den # 0 /\ moved.centroid.y.den # 0
                  /\ RatEq(moved.centroid.x, AddQuotient(centOp.result.centroid.x, d, 1))
                  /\ RatEq(moved.centroid.y, AddQuotient(centOp.result.centroid.y, d, 1))

\* C9 witness: doApply just returned a centroid off the pixel centre on both
\* axes, with a nonzero background, in an image with origin x0 # y0.
C9_Witness ==
    /\ centOp.op = "doApply" /\ centOp.result.err = NoError
    /\ background > 0
    /\ image.x0 > 0 /\ image.y0 = 0
    /\ SumX(image, CallLx, CallLy) # 0
    /\ SumY(image, CallLx, CallLy) # 0
    /\ SumX(image, CallLx, CallLy) # SumY(image, CallLx, CallLy)

====
